---------------------------- MODULE Spec2Model ----------------------------
(***************************************************************************)
(* Model of the notebook chapter3/robin_neumann_dirichlet.ipynb: the       *)
(* facet-tagging loop, the BoundaryCondition class, the loop that sorts    *)
(* boundary conditions into the Dirichlet list bcs or the residual F, and  *)
(* the split of F into a = lhs(F) and L = rhs(F). Three further programs   *)
(* of the repository have a specification of their own: the forms of       *)
(* chapter1/nitsche.ipynb (SpecNitsche), the Newton solve of the nonlinear *)
(* Poisson notebook (SpecNewton) and the jobs of the workflow that         *)
(* publishes the book (SpecPublish).                                       *)
(*                                                                         *)
(* A variational form is a sequence of integrals; an integral is a record  *)
(* [integrand, measure, marker]; an integrand is an expression tree over   *)
(* the trial function u, the test function v and named coefficients.       *)
(***************************************************************************)
EXTENDS Integers, Sequences, FiniteSets, Bags, TLC

VARIABLES
    mesh,                \* [nx, ny, diag, facets]: create_unit_square(comm, nx, ny)
    pc,                  \* the cell / statement the notebook is at
    bi,                  \* position in the loop over boundaries
    facet_indices,       \* list of located facet arrays, then the stacked array
    facet_markers,       \* list of marker arrays, then the stacked array
    facet_tag,           \* meshtags: [indices, values]
    specs,               \* constructor arguments of the list literal, in order
    built,               \* BoundaryCondition objects built so far by the literal
    boundary_conditions, \* the list bound once the whole literal is evaluated
    error,               \* the exception that ended the run, or NoError
    F,                   \* the residual form
    bcs,                 \* the list of Dirichlet conditions
    k,                   \* number of conditions the running loop has processed
    runs,                \* how often the aggregation cell has been started
    runlog,              \* per finished aggregation run: [F_in, F_out, bcs]
    a,                   \* lhs(F); in nitsche.ipynb the bilinear form a
    L,                   \* rhs(F); in nitsche.ipynb the linear form L
    domain,              \* nitsche.ipynb: [nx, ny] of create_unit_square(comm, N, N)
    alpha,               \* nitsche.ipynb: the value of the Constant alpha
    problem,             \* nitsche.ipynb: LinearProblem [a, L, bcs]
    newton_n,            \* nonlinear Poisson: n of n, converged = solver.solve(uh)
    converged,           \* nonlinear Poisson: converged of the same statement
    rank,                \* nonlinear Poisson: domain.comm.rank of this process
    stdout,              \* nonlinear Poisson: what the process has printed
    publish              \* Publish book: the workflow runs, oldest first

vars == <<mesh, pc, bi, facet_indices, facet_markers, facet_tag, specs, built,
          boundary_conditions, error, F, bcs, k, runs, runlog, a, L,
          domain, alpha, problem, newton_n, converged, rank, stdout, publish>>

tagVars == <<bi, facet_indices, facet_markers, facet_tag>>
bcVars == <<specs, built, boundary_conditions, error, F, bcs, k, runs, runlog, a, L>>

\* The variables of the other programs.
nitscheVars == <<domain, alpha, problem>>
newtonVars == <<newton_n, converged, rank, stdout>>
publishVars == <<publish>>
otherVars == <<nitscheVars, newtonVars, publishVars>>

\* The variables of robin_neumann_dirichlet.ipynb that the other programs do not have.
chapter3Vars == <<mesh, bi, facet_indices, facet_markers, facet_tag, specs, built,
                  boundary_conditions, F, bcs, k, runs, runlog>>

\* ------------------------------------------------------------------ bounds

\* Meshes of SpecTag have 1..MaxN cells per direction.
MaxN == 3
\* Specification lists other than the notebook's own have at most MaxLen entries.
MaxLen == 2
\* The aggregation cell is started at most MaxRuns times.
MaxRuns == 2
\* The mesh the boundary-condition cells run on has MeshN cells per direction.
MeshN == 2
\* nitsche.ipynb is also run with penalty parameters 1..MaxAlpha.
MaxAlpha == 3
\* The Newton solver returns after at most MaxIter iterations.
MaxIter == 8
\* The nonlinear Poisson notebook runs on the processes of rank 0..MaxRank.
MaxRank == 1
\* The workflow is triggered at most MaxPublishRuns times.
MaxPublishRuns == 2

\* ------------------------------------------------------------ small helpers

Range(s) == {s[i] : i \in DOMAIN s}

Abs(x) == IF x < 0 THEN -x ELSE x

RECURSIVE Flatten(_)
\* np.hstack of a list of one-dimensional arrays
Flatten(ss) == IF ss = <<>> THEN <<>> ELSE Head(ss) \o Flatten(Tail(ss))

\* The multiset of the entries of a sequence.
BagOfSeq(s) == [x \in Range(s) |-> Cardinality({i \in DOMAIN s : s[i] = x})]

\* --------------------------------------------------------------------- mesh

\* create_unit_square(MPI.COMM_WORLD, 10, 10): cells per direction.
NotebookN == 10

DiagonalTypes == {"right", "left", "crossed"}

\* A vertex is <<x, y>> in half-cell units: its coordinates are x/(2 nx), y/(2 ny).
Corner(i, j) == <<2 * i, 2 * j>>

\* The triangles of cell (i, j), each a set of three vertices.
CellTriangles(m, i, j) ==
    LET A == Corner(i, j)
        B == Corner(i + 1, j)
        C == Corner(i, j + 1)
        D == Corner(i + 1, j + 1)
        M == <<2 * i + 1, 2 * j + 1>>
    IN  CASE m.diag = "right" -> {{A, B, D}, {A, C, D}}
          [] m.diag = "left" -> {{A, B, C}, {B, C, D}}
          [] OTHER -> {{A, B, M}, {B, D, M}, {D, C, M}, {C, A, M}}

Cells(m) ==
    UNION {CellTriangles(m, i, j) : i \in 0..(m.nx - 1), j \in 0..(m.ny - 1)}

\* The facets (edges) of the mesh, each a set of two vertices.
Facets(m) == UNION {{e \in SUBSET c : Cardinality(e) = 2} : c \in Cells(m)}

\* A facet of the domain boundary belongs to exactly one cell.
BoundaryFacets(m) ==
    {e \in Facets(m) : Cardinality({c \in Cells(m) : e \subseteq c}) = 1}

VertexId(m, p) == p[1] * (2 * m.ny + 1) + p[2]

FacetKey(m, e) ==
    LET ids == {VertexId(m, p) : p \in e}
        lo == CHOOSE x \in ids : \A y \in ids : x <= y
        hi == CHOOSE x \in ids : \A y \in ids : y <= x
    IN  lo * ((2 * m.nx + 1) * (2 * m.ny + 1)) + hi

RECURSIVE SortedSeq(_)
\* The elements of a finite set of integers in increasing order.
SortedSeq(S) ==
    IF S = {} THEN <<>>
    ELSE LET x == CHOOSE y \in S : \A z \in S : y <= z
         IN  <<x>> \o SortedSeq(S \ {x})

RECURSIVE FacetsByKey(_, _)
\* The facets fs of a mesh in the order of their keys.
FacetsByKey(m, fs) ==
    IF fs = {} THEN <<>>
    ELSE LET e == CHOOSE x \in fs : \A y \in fs : FacetKey(m, x) <= FacetKey(m, y)
         IN  <<e>> \o FacetsByKey(m, fs \ {e})

\* create_unit_square(comm, nx, ny, diagonal): the mesh with its facets numbered;
\* facet number n (from 0) is entry n + 1 of facets.
UnitSquare(nx, ny, diag) ==
    LET m == [nx |-> nx, ny |-> ny, diag |-> diag]
    IN  [nx |-> nx, ny |-> ny, diag |-> diag, facets |-> FacetsByKey(m, Facets(m))]

\* mesh = create_unit_square(MPI.COMM_WORLD, 10, 10)
NotebookMesh == UnitSquare(NotebookN, NotebookN, "right")

\* The mesh the boundary-condition cells run on.
SpecMesh == UnitSquare(MeshN, MeshN, "right")

\* The meshes of SpecTag: every small unit-square mesh, and the notebook's.
TagMeshes ==
    {UnitSquare(i, j, d) : i \in 1..MaxN, j \in 1..MaxN, d \in DiagonalTypes}
    \cup {NotebookMesh}

\* The index of a facet of the mesh.
FacetIndex(m, e) == (CHOOSE i \in DOMAIN m.facets : m.facets[i] = e) - 1

FacetOfIndex(m, n) == m.facets[n + 1]

\* np.isclose(x, b) for x = num/den and an integer b, with numpy's default
\* rtol = 1e-5 and atol = 1e-8: |x - b| <= atol + rtol * |b|, scaled by 1e8 * den.
IsClose(num, den, b) ==
    Abs(num - b * den) * 100000000 <= (1 + 1000 * Abs(b)) * den

\* boundaries = [(1, x[0] ~ 0), (2, x[0] ~ 1), (3, x[1] ~ 0), (4, x[1] ~ 1)]
boundaries ==
    << [marker |-> 1, axis |-> 1, value |-> 0],
       [marker |-> 2, axis |-> 1, value |-> 1],
       [marker |-> 3, axis |-> 2, value |-> 0],
       [marker |-> 4, axis |-> 2, value |-> 1] >>

\* The locator lambda of a boundaries entry, applied to vertex p of mesh m.
Locator(m, b, p) ==
    IF b.axis = 1 THEN IsClose(p[1], 2 * m.nx, b.value)
                  ELSE IsClose(p[2], 2 * m.ny, b.value)

\* A mutation of locate_entities: some vertex, instead of every vertex, satisfies
\* the locator.
locate_entities_any(m, b) ==
    SortedSeq({i - 1 : i \in {j \in DOMAIN m.facets :
                                \E p \in m.facets[j] : Locator(m, b, p)}})

\* locate_entities(mesh, fdim, locator): the indices, in increasing order, of the
\* facets all of whose vertices satisfy the locator.
locate_entities(m, b) ==
    SortedSeq({i - 1 : i \in {j \in DOMAIN m.facets :
                                \A p \in m.facets[j] : Locator(m, b, p)}})

\* np.full_like(facets, marker)
full_like(facets, marker) == [i \in DOMAIN facets |-> marker]

\* A mutation of argsort: the permutation sorts the keys in decreasing order.
argsort_descending(keys, tie) ==
    LET n == Len(keys)
        Before(i, j) ==
            \/ keys[i] > keys[j]
            \/ keys[i] = keys[j] /\ (IF tie = "stable" THEN i < j ELSE j < i)
        Rank(i) == 1 + Cardinality({j \in 1..n : Before(j, i)})
    IN  [r \in 1..n |-> CHOOSE i \in 1..n : Rank(i) = r]

\* np.argsort(keys): a permutation p of the positions with keys[p[1]] <= keys[p[2]]
\* <= ...; numpy's default sort is not stable, so equal keys may come out in
\* either order (tie is "stable" or "reverse").
argsort(keys, tie) ==
    LET n == Len(keys)
        Before(i, j) ==
            \/ keys[i] < keys[j]
            \/ keys[i] = keys[j] /\ (IF tie = "stable" THEN i < j ELSE j < i)
        Rank(i) == 1 + Cardinality({j \in 1..n : Before(j, i)})
    IN  [r \in 1..n |-> CHOOSE i \in 1..n : Rank(i) = r]

\* arr[perm]: numpy indexing of an array by an index array
Take(arr, perm) == [r \in DOMAIN perm |-> arr[perm[r]]]

\* meshtags(mesh, fdim, indices, values)
meshtags(indices, values) == [indices |-> indices, values |-> values]

\* facet_tag.find(marker): the indices tagged with the marker
find(tag, marker) ==
    {tag.indices[i] : i \in {j \in DOMAIN tag.indices : tag.values[j] = marker}}

NoTag == [indices |-> <<>>, values |-> <<>>]

\* The whole tagging cell as one function of the mesh.
TagMesh(m) ==
    LET idx == Flatten([i \in DOMAIN boundaries |-> locate_entities(m, boundaries[i])])
        mk == Flatten([i \in DOMAIN boundaries |->
                         full_like(locate_entities(m, boundaries[i]), boundaries[i].marker)])
        sorted_facets == argsort(idx, "stable")
    IN  meshtags(Take(idx, sorted_facets), Take(mk, sorted_facets))

\* ------------------------------------------------------------- expressions

\* u, v = TrialFunction(V), TestFunction(V)
u == [op |-> "u"]

v == [op |-> "v"]

\* A named coefficient: kappa, f, g, r, s, ...
Coef(c) == [op |-> "coef", name |-> c]

grad(e) == [op |-> "grad", arg |-> e]

inner(x, y) == [op |-> "inner", l |-> x, r |-> y]

Mul(x, y) == [op |-> "mul", l |-> x, r |-> y]

Sub(x, y) == [op |-> "sub", l |-> x, r |-> y]

Add(x, y) == [op |-> "add", l |-> x, r |-> y]

Neg(x) == [op |-> "neg", arg |-> x]
Div(x, y) == [op |-> "div", l |-> x, r |-> y]

\* dx: the integral over the whole domain carries no marker.
Everywhere == 0 - 1

\* integrand * dx
IntDx(e) == [integrand |-> e, measure |-> "dx", marker |-> Everywhere]

\* integrand * ds(marker)
IntDs(e, marker) == [integrand |-> e, measure |-> "ds", marker |-> marker]

\* A form: the sequence of its integrals.
Form(ints) == [integrals |-> ints]

\* form1 + form2 (F += form2 rebinds F to this sum)
FormAdd(f1, f2) == Form(f1.integrals \o f2.integrals)

\* -form: every integrand is negated
FormNeg(f1) ==
    Form([i \in DOMAIN f1.integrals |->
            [f1.integrals[i] EXCEPT !.integrand = Neg(f1.integrals[i].integrand)]])

\* form1 - form2 is form1 + (-form2)
FormSub(f1, f2) == FormAdd(f1, FormNeg(f2))

\* F = kappa * inner(grad(u), grad(v)) * dx - inner(f, v) * dx
BaseF ==
    Form(<< IntDx(Mul(Coef("kappa"), inner(grad(u), grad(v)))),
            IntDx(Neg(inner(Coef("f"), v))) >>)

\* A monomial is [sign, atoms]: sign is 1 or -1 and atoms the bag of its factors,
\* each factor <<"u">>, <<"v">>, <<"grad", "u">>, <<"grad", "v">> or <<"coef", c>>.
Mono(sign, atoms) == [sign |-> sign, atoms |-> atoms]

NegMonos(ms) == [i \in DOMAIN ms |-> Mono(0 - ms[i].sign, ms[i].atoms)]

\* The products of every monomial of xs with every monomial of ys.
MulMonos(xs, ys) ==
    Flatten([i \in DOMAIN xs |->
               [j \in DOMAIN ys |->
                  Mono(xs[i].sign * ys[j].sign, xs[i].atoms (+) ys[j].atoms)]])

\* grad is linear; it is only ever applied to u, v or a coefficient.
GradMonos(ms) ==
    [i \in DOMAIN ms |->
       LET x == CHOOSE y \in DOMAIN ms[i].atoms : TRUE
       IN  Mono(ms[i].sign, SetToBag({<<"grad">> \o x}))]

\* 1 / (a product of factors): each factor x becomes the factor <<"inv">> \o x.
\* Only ever applied to a single product.
InvMonos(ms) ==
    [i \in DOMAIN ms |->
       Mono(ms[i].sign,
            LET b == ms[i].atoms
            IN  [y \in {<<"inv">> \o x : x \in DOMAIN b} |-> b[Tail(y)]])]

RECURSIVE Expand(_)
\* The integrand as a sum of monomials, by linearity of inner, *, - and grad.
Expand(e) ==
    CASE e.op = "u" -> <<Mono(1, SetToBag({<<"u">>}))>>
      [] e.op = "v" -> <<Mono(1, SetToBag({<<"v">>}))>>
      [] e.op = "coef" -> <<Mono(1, SetToBag({<<"coef", e.name>>}))>>
      [] e.op = "grad" -> GradMonos(Expand(e.arg))
      [] e.op = "neg" -> NegMonos(Expand(e.arg))
      [] e.op = "add" -> Expand(e.l) \o Expand(e.r)
      [] e.op = "sub" -> Expand(e.l) \o NegMonos(Expand(e.r))
      [] e.op = "div" -> MulMonos(Expand(e.l), InvMonos(Expand(e.r)))
      [] OTHER -> MulMonos(Expand(e.l), Expand(e.r))

TrialAtoms == {<<"u">>, <<"grad", "u">>}

TestAtoms == {<<"v">>, <<"grad", "v">>}

\* The number of arguments (trial, test) a monomial depends on.
Arity(m) ==
    (IF DOMAIN m.atoms \cap TrialAtoms # {} THEN 1 ELSE 0)
    + (IF DOMAIN m.atoms \cap TestAtoms # {} THEN 1 ELSE 0)

\* A term is a monomial integrated over a measure: [sign, atoms, measure, marker].
Term(m, int) ==
    [sign |-> m.sign, atoms |-> m.atoms, measure |-> int.measure, marker |-> int.marker]

\* The terms of a form, integral by integral.
Terms(form) ==
    Flatten([i \in DOMAIN form.integrals |->
               LET ms == Expand(form.integrals[i].integrand)
               IN  [j \in DOMAIN ms |-> Term(ms[j], form.integrals[i])]])

NegTerms(ts) == [i \in DOMAIN ts |-> [ts[i] EXCEPT !.sign = 0 - ts[i].sign]]

\* SelectSeq by the arity of a term
TermsOfArity(ts, n) == SelectSeq(ts, LAMBDA t : Arity(t) = n)

\* A mutation of rhs: the linear terms are not negated.
rhs_unsigned(form) == TermsOfArity(Terms(form), 1)

\* lhs(F): the terms of F that depend on both the trial and the test function.
lhs(form) == TermsOfArity(Terms(form), 2)

\* rhs(F): the negated terms of F that depend on the test function only.
rhs(form) == NegTerms(TermsOfArity(Terms(form), 1))

\* ------------------------------------------------------- BoundaryCondition

NoError == [type |-> "none", msg |-> <<>>]

\* locate_dofs_topological(V, fdim, facets) for V = ("Lagrange", 1): the degrees of
\* freedom are the vertices of the facets.
locate_dofs_topological(m, facets) == UNION {FacetOfIndex(m, n) : n \in facets}

\* dirichletbc(u_D, dofs), u_D the interpolation of the values function
dirichletbc(values, dofs) == [value |-> values[1], dofs |-> dofs]

\* "Unknown boundary condition: {0:s}".format(type)
UnknownMessage(type) == <<"Unknown boundary condition: ", type>>

\* A successfully constructed object: self._type and self._bc.
Built(type, bc) == [ok |-> TRUE, obj |-> [type |-> type, bc |-> bc]]

\* A constructor call that raised.
Raised(type, msg) == [ok |-> FALSE, error |-> [type |-> type, msg |-> msg]]

\* A mutation of the Dirichlet branch: a marker that tags no facet is rejected.
DirichletBranchStrict(m, tag, marker, values) ==
    IF find(tag, marker) = {}
    THEN Raised("ValueError", <<"marker not found">>)
    ELSE Built("Dirichlet",
               dirichletbc(values, locate_dofs_topological(m, find(tag, marker))))

\* type == "Dirichlet": u_D interpolates values, the dofs are those of the facets
\* facet_tag.find(marker), and _bc = dirichletbc(u_D, dofs).
DirichletBranch(m, tag, marker, values) ==
    Built("Dirichlet", dirichletbc(values, locate_dofs_topological(m, find(tag, marker))))

\* A mutation of the Neumann branch: the term is subtracted.
NeumannBranchNegated(marker, values) ==
    Built("Neumann", Form(<<IntDs(Neg(inner(Coef(values[1]), v)), marker)>>))

\* A mutation of the Neumann branch: the term is integrated over the whole boundary.
NeumannBranchUnrestricted(marker, values) ==
    Built("Neumann", Form(<<IntDs(inner(Coef(values[1]), v), Everywhere)>>))

\* type == "Neumann": _bc = inner(values, v) * ds(marker)
NeumannBranch(marker, values) ==
    Built("Neumann", Form(<<IntDs(inner(Coef(values[1]), v), marker)>>))

\* A mutation of the Robin branch: r * (u + s) * v.
RobinBranchPlus(marker, values) ==
    Built("Robin",
          Form(<<IntDs(Mul(Coef(values[1]), inner(Add(u, Coef(values[2])), v)), marker)>>))

\* type == "Robin": _bc = values[0] * inner(u - values[1], v) * ds(marker)
RobinBranch(marker, values) ==
    Built("Robin",
          Form(<<IntDs(Mul(Coef(values[1]), inner(Sub(u, Coef(values[2])), v)), marker)>>))

\* A mutation of the else branch: an unknown type is accepted with an empty term.
UnknownBranchSilent(type) == Built(type, Form(<<>>))

\* else: raise TypeError("Unknown boundary condition: {0:s}".format(type))
UnknownBranch(type) == Raised("TypeError", UnknownMessage(type))

\* A mutation of the constructor: the kind is matched without regard to case and
\* kept as it was written.
BoundaryConditionCaseless(m, tag, type, marker, values) ==
    CASE type \in {"Dirichlet", "dirichlet"} ->
             Built(type, dirichletbc(values, locate_dofs_topological(m, find(tag, marker))))
      [] type = "Neumann" -> NeumannBranch(marker, values)
      [] type = "Robin" -> RobinBranch(marker, values)
      [] OTHER -> UnknownBranch(type)

\* BoundaryCondition(type, marker, values): the object [type, bc] it constructs,
\* or the exception it raises. V, fdim, facet_tag, u, v and ds are the notebook's
\* globals (m and tag here); values is <<u_D>>, <<g>> or <<r, s>>.
BoundaryCondition(m, tag, type, marker, values) ==
    CASE type = "Dirichlet" -> DirichletBranch(m, tag, marker, values)
      [] type = "Neumann" -> NeumannBranch(marker, values)
      [] type = "Robin" -> RobinBranch(marker, values)
      [] OTHER -> UnknownBranch(type)

\* ------------------------------------------------------------------- inputs

BC(type, marker, values) == [type |-> type, marker |-> marker, values |-> values]

\* The arguments of the notebook's own list literal.
NotebookSpecs ==
    << BC("Dirichlet", 1, <<"u_ex">>),
       BC("Dirichlet", 2, <<"u_ex">>),
       BC("Robin", 3, <<"r", "s">>),
       BC("Neumann", 4, <<"g">>) >>

ValidTypes == {"Dirichlet", "Neumann", "Robin"}

\* Type strings the constructor does not know.
UnknownTypes == {"Periodic", "dirichlet"}

\* Markers of other lists: two tagged ones and one that tags no facet.
InputMarkers == {boundaries[1].marker, boundaries[4].marker, Len(boundaries) + 1}

InputValues(type) ==
    CASE type = "Dirichlet" -> {<<"u_ex">>}
      [] type = "Neumann" -> {<<"g">>, <<"s">>}
      [] type = "Robin" -> {<<"r", "s">>}
      [] OTHER -> {<<"g">>}

InputSpecs ==
    UNION {{BC(t, mk, vals) : mk \in InputMarkers, vals \in InputValues(t)} :
             t \in ValidTypes \cup UnknownTypes}

\* Every list of at most MaxLen specifications, and the notebook's list.
SpecLists ==
    UNION {[1..n -> InputSpecs] : n \in 0..MaxLen} \cup {NotebookSpecs}

\* ------------------------------------------------------------ tagging cell

\* for (marker, locator) in boundaries: one iteration
TagStep ==
    /\ pc = "tag"
    /\ bi <= Len(boundaries)
    /\ LET facets == locate_entities(mesh, boundaries[bi])
       IN  /\ facet_indices' = Append(facet_indices, facets)
           /\ facet_markers' = Append(facet_markers, full_like(facets, boundaries[bi].marker))
    /\ bi' = bi + 1
    /\ UNCHANGED <<mesh, pc, facet_tag>>
    /\ UNCHANGED bcVars
    /\ UNCHANGED otherVars

\* np.hstack of both lists, argsort of the indices, meshtags of the sorted arrays
TagFinish ==
    /\ pc = "tag"
    /\ bi > Len(boundaries)
    /\ \E tie \in {"stable", "reverse"} :
         LET idx == Flatten(facet_indices)
             mk == Flatten(facet_markers)
             sorted_facets == argsort(idx, tie)
         IN  /\ facet_indices' = idx
             /\ facet_markers' = mk
             /\ facet_tag' = meshtags(Take(idx, sorted_facets), Take(mk, sorted_facets))
    /\ pc' = "tagged"
    /\ UNCHANGED <<mesh, bi>>
    /\ UNCHANGED bcVars
    /\ UNCHANGED otherVars

\* --------------------------------------------- boundary_conditions = [...]

\* The next element of the list literal is constructed.
ConstructOk ==
    /\ pc = "construct"
    /\ Len(built) < Len(specs)
    /\ LET sp == specs[Len(built) + 1]
           res == BoundaryCondition(mesh, facet_tag, sp.type, sp.marker, sp.values)
       IN  /\ res.ok
           /\ built' = Append(built, res.obj)
    /\ UNCHANGED <<mesh, pc, specs, boundary_conditions, error, F, bcs, k, runs, runlog, a, L>>
    /\ UNCHANGED tagVars
    /\ UNCHANGED otherVars

\* The constructor of the next element raises: the cell ends with the exception.
ConstructRaise ==
    /\ pc = "construct"
    /\ Len(built) < Len(specs)
    /\ LET sp == specs[Len(built) + 1]
           res == BoundaryCondition(mesh, facet_tag, sp.type, sp.marker, sp.values)
       IN  /\ ~res.ok
           /\ error' = res.error
    /\ pc' = "raised"
    /\ UNCHANGED <<mesh, specs, built, boundary_conditions, F, bcs, k, runs, runlog, a, L>>
    /\ UNCHANGED tagVars
    /\ UNCHANGED otherVars

\* Every element is constructed: the list is bound to boundary_conditions.
BindList ==
    /\ pc = "construct"
    /\ Len(built) = Len(specs)
    /\ boundary_conditions' = built
    /\ pc' = "constructed"
    /\ UNCHANGED <<mesh, specs, built, error, F, bcs, k, runs, runlog, a, L>>
    /\ UNCHANGED tagVars
    /\ UNCHANGED otherVars

\* ----------------------------------------------------- aggregation cell

\* The cell's value of a log entry that is still running.
Running == Form(<<>>)

\* A mutation of bcs = []: the list of an earlier run is kept.
KeepBcs(old) == old

\* bcs = []
NewBcs(old) == <<>>

\* bcs = []: the aggregation cell starts (again), with F as it is.
StartAggregate ==
    /\ pc \in {"constructed", "aggregated"}
    /\ runs < MaxRuns
    /\ bcs' = NewBcs(bcs)
    /\ k' = 0
    /\ runs' = runs + 1
    /\ runlog' = Append(runlog, [F_in |-> F, F_out |-> Running, bcs |-> <<>>, done |-> FALSE])
    /\ pc' = "aggregate"
    /\ UNCHANGED <<mesh, specs, built, boundary_conditions, error, F, a, L>>
    /\ UNCHANGED tagVars
    /\ UNCHANGED otherVars

\* @property type: return self._type
get_type(condition) == condition.type

\* A mutation of the bc property: a Dirichlet condition comes back without dofs.
get_bc_stripped(condition) ==
    IF condition.type = "Dirichlet" THEN [condition.bc EXCEPT !.dofs = {}]
    ELSE condition.bc

\* @property bc: return self._bc
get_bc(condition) == condition.bc

\* A mutation of the if branch: the Dirichlet condition is not appended.
AppendToBcsDropped(list, condition) == list

\* A mutation of the if branch: the Dirichlet condition is put in front.
AppendToBcsFront(list, condition) == <<get_bc(condition)>> \o list

\* bcs.append(condition.bc)
AppendToBcs(list, condition) == Append(list, get_bc(condition))

\* A mutation of the else branch: F = condition.bc
AddToResidualOverwrite(form, condition) == get_bc(condition)

\* else: F += condition.bc
AddToResidual(form, condition) == FormAdd(form, get_bc(condition))

\* A mutation of the for loop: the iterator does not advance.
NextConditionStuck(n) == n

\* for condition in boundary_conditions: the iterator moves to the next entry.
NextCondition(n) == n + 1

\* if condition.type == "Dirichlet": bcs.append(condition.bc)
AggregateDirichlet ==
    /\ pc = "aggregate"
    /\ k < Len(boundary_conditions)
    /\ get_type(boundary_conditions[k + 1]) = "Dirichlet"
    /\ bcs' = AppendToBcs(bcs, boundary_conditions[k + 1])
    /\ k' = NextCondition(k)
    /\ UNCHANGED <<mesh, pc, specs, built, boundary_conditions, error, F, runs, runlog, a, L>>
    /\ UNCHANGED tagVars
    /\ UNCHANGED otherVars

\* else: F += condition.bc
AggregateOther ==
    /\ pc = "aggregate"
    /\ k < Len(boundary_conditions)
    /\ get_type(boundary_conditions[k + 1]) # "Dirichlet"
    /\ F' = AddToResidual(F, boundary_conditions[k + 1])
    /\ k' = NextCondition(k)
    /\ UNCHANGED <<mesh, pc, specs, built, boundary_conditions, error, bcs, runs, runlog, a, L>>
    /\ UNCHANGED tagVars
    /\ UNCHANGED otherVars

\* The for loop is exhausted: the cell is done.
AggregateDone ==
    /\ pc = "aggregate"
    /\ k = Len(boundary_conditions)
    /\ runlog' = [runlog EXCEPT ![Len(runlog)] =
                     [F_in |-> @.F_in, F_out |-> F, bcs |-> bcs, done |-> TRUE]]
    /\ pc' = "aggregated"
    /\ UNCHANGED <<mesh, specs, built, boundary_conditions, error, F, bcs, k, runs, a, L>>
    /\ UNCHANGED tagVars
    /\ UNCHANGED otherVars

\* The cell that defines F is run again before another aggregation.
DefineF ==
    /\ pc = "aggregated"
    /\ runs < MaxRuns
    /\ F # BaseF
    /\ F' = BaseF
    /\ pc' = "constructed"
    /\ UNCHANGED <<mesh, specs, built, boundary_conditions, error, bcs, k, runs, runlog, a, L>>
    /\ UNCHANGED tagVars
    /\ UNCHANGED otherVars

\* a = lhs(F); L = rhs(F)
Split ==
    /\ pc = "aggregated"
    /\ a' = lhs(F)
    /\ L' = rhs(F)
    /\ pc' = "split"
    /\ UNCHANGED <<mesh, specs, built, boundary_conditions, error, F, bcs, k, runs, runlog>>
    /\ UNCHANGED tagVars
    /\ UNCHANGED otherVars

\* ------------------------------------------------------------ specifications

\* The notebook after the tagging cell, on a MeshN x MeshN mesh, about to evaluate
\* a list literal of boundary conditions.
\* nitsche.ipynb has not started.
NitscheIdle ==
    /\ domain = [nx |-> 0, ny |-> 0]
    /\ alpha = 0
    /\ problem = [a |-> Form(<<>>), L |-> Form(<<>>), bcs |-> <<>>]

\* The nonlinear Poisson notebook has not started.
NewtonIdle ==
    /\ newton_n = 0
    /\ converged = FALSE
    /\ rank = 0
    /\ stdout = <<>>

\* The workflow has never been triggered.
PublishIdle == publish = <<>>

\* None of the other programs has started.
OthersIdle == NitscheIdle /\ NewtonIdle /\ PublishIdle

Init ==
    /\ mesh = SpecMesh
    /\ pc = "construct"
    /\ bi = Len(boundaries) + 1
    /\ facet_indices =
         Flatten([i \in DOMAIN boundaries |-> locate_entities(mesh, boundaries[i])])
    /\ facet_markers =
         Flatten([i \in DOMAIN boundaries |->
                    full_like(locate_entities(mesh, boundaries[i]), boundaries[i].marker)])
    /\ facet_tag = TagMesh(mesh)
    /\ specs \in SpecLists
    /\ built = <<>>
    /\ boundary_conditions = <<>>
    /\ error = NoError
    /\ F = BaseF
    /\ bcs = <<>>
    /\ k = 0
    /\ runs = 0
    /\ runlog = <<>>
    /\ a = <<>>
    /\ L = <<>>
    /\ OthersIdle

Next ==
    \/ ConstructOk
    \/ ConstructRaise
    \/ BindList
    \/ StartAggregate
    \/ AggregateDirichlet
    \/ AggregateOther
    \/ AggregateDone
    \/ DefineF
    \/ Split

Spec == Init /\ [][Next]_vars

\* The notebook before the tagging cell.
InitTag ==
    /\ mesh \in TagMeshes
    /\ pc = "tag"
    /\ bi = 1
    /\ facet_indices = <<>>
    /\ facet_markers = <<>>
    /\ facet_tag = NoTag
    /\ specs = <<>>
    /\ built = <<>>
    /\ boundary_conditions = <<>>
    /\ error = NoError
    /\ F = BaseF
    /\ bcs = <<>>
    /\ k = 0
    /\ runs = 0
    /\ runlog = <<>>
    /\ a = <<>>
    /\ L = <<>>
    /\ OthersIdle

NextTag == TagStep \/ TagFinish

SpecTag == InitTag /\ [][NextTag]_vars

\* ------------------------------------------------ chapter1/nitsche.ipynb

\* N = 8
NitscheN == 8

\* alpha = fem.Constant(domain, default_scalar_type(10))
NitscheAlpha == 10

\* domain = mesh.create_unit_square(MPI.COMM_WORLD, N, N)
create_unit_square(nx, ny) == [nx |-> nx, ny |-> ny]

\* n = FacetNormal(domain)
FacetNormal == Coef("n")

\* h = 2 * Circumradius(domain)
h == Mul(Coef("2"), Coef("Circumradius"))

\* The Constant alpha, the Function uD and the expression f as they stand in a form.
alphaConstant == Coef("alpha")
uD == Coef("uD")
f == Coef("f")

\* ds without a marker: the whole boundary
ds(e) == IntDs(e, Everywhere)

\* a = inner(grad(u), grad(v)) * dx - inner(n, grad(u)) * v * ds
BilinearFirst ==
    FormSub(Form(<<IntDx(inner(grad(u), grad(v)))>>),
            Form(<<ds(Mul(inner(FacetNormal, grad(u)), v))>>))

\* A mutation of the second statement for a: the term that makes a symmetric is
\* left out.
BilinearSecondPenaltyOnly(form) ==
    FormAdd(form, Form(<<ds(Mul(Div(alphaConstant, h), inner(u, v)))>>))

\* a += - inner(n, grad(v)) * u * ds + alpha / h * inner(u, v) * ds
BilinearSecond(form) ==
    FormAdd(form,
            FormAdd(Form(<<ds(Mul(Neg(inner(FacetNormal, grad(v))), u))>>),
                    Form(<<ds(Mul(Div(alphaConstant, h), inner(u, v)))>>)))

\* L = inner(f, v) * dx
LinearFirst == Form(<<IntDx(inner(f, v))>>)

\* L += - inner(n, grad(v)) * uD * ds + alpha / h * inner(uD, v) * ds
LinearSecond(form) ==
    FormAdd(form,
            FormAdd(Form(<<ds(Mul(Neg(inner(FacetNormal, grad(v))), uD))>>),
                    Form(<<ds(Mul(Div(alphaConstant, h), inner(uD, v)))>>)))

\* A mutation of the call: the Dirichlet condition is also imposed strongly.
LinearProblemStrong(fa, fL) ==
    [a |-> fa, L |-> fL, bcs |-> <<dirichletbc(<<"uD">>, {})>>]

\* LinearProblem(a, L): no bcs argument, so the list of constraints is empty.
LinearProblem(fa, fL) == [a |-> fa, L |-> fL, bcs |-> <<>>]

\* alpha = fem.Constant(domain, default_scalar_type(10)), or another penalty
AssignAlpha ==
    /\ pc = "alpha"
    /\ alpha' \in 1..MaxAlpha \cup {NitscheAlpha}
    /\ pc' = "a"
    /\ UNCHANGED <<error, a, L, domain, problem>>
    /\ UNCHANGED chapter3Vars
    /\ UNCHANGED <<newtonVars, publishVars>>

\* a = ...
AssignA ==
    /\ pc = "a"
    /\ a' = BilinearFirst
    /\ pc' = "a +="
    /\ UNCHANGED <<error, L, domain, alpha, problem>>
    /\ UNCHANGED chapter3Vars
    /\ UNCHANGED <<newtonVars, publishVars>>

\* a += ...
AugmentA ==
    /\ pc = "a +="
    /\ a' = BilinearSecond(a)
    /\ pc' = "L"
    /\ UNCHANGED <<error, L, domain, alpha, problem>>
    /\ UNCHANGED chapter3Vars
    /\ UNCHANGED <<newtonVars, publishVars>>

\* L = ...
AssignL ==
    /\ pc = "L"
    /\ L' = LinearFirst
    /\ pc' = "L +="
    /\ UNCHANGED <<error, a, domain, alpha, problem>>
    /\ UNCHANGED chapter3Vars
    /\ UNCHANGED <<newtonVars, publishVars>>

\* L += ...
AugmentL ==
    /\ pc = "L +="
    /\ L' = LinearSecond(L)
    /\ pc' = "problem"
    /\ UNCHANGED <<error, a, domain, alpha, problem>>
    /\ UNCHANGED chapter3Vars
    /\ UNCHANGED <<newtonVars, publishVars>>

\* problem = LinearProblem(a, L)
CreateProblem ==
    /\ pc = "problem"
    /\ problem' = LinearProblem(a, L)
    /\ pc' = "solve"
    /\ UNCHANGED <<error, a, L, domain, alpha>>
    /\ UNCHANGED chapter3Vars
    /\ UNCHANGED <<newtonVars, publishVars>>

\* uh = problem.solve()
SolveProblem ==
    /\ pc = "solve"
    /\ pc' = "solved"
    /\ UNCHANGED <<error, a, L, domain, alpha, problem>>
    /\ UNCHANGED chapter3Vars
    /\ UNCHANGED <<newtonVars, publishVars>>

\* The variables of robin_neumann_dirichlet.ipynb in the other programs.
Chapter3Idle ==
    /\ mesh = [nx |-> 0, ny |-> 0, diag |-> "right", facets |-> <<>>]
    /\ bi = 1
    /\ facet_indices = <<>>
    /\ facet_markers = <<>>
    /\ facet_tag = NoTag
    /\ specs = <<>>
    /\ built = <<>>
    /\ boundary_conditions = <<>>
    /\ F = Form(<<>>)
    /\ bcs = <<>>
    /\ k = 0
    /\ runs = 0
    /\ runlog = <<>>

\* nitsche.ipynb after the mesh is created, on an N x N mesh for the notebook's
\* N and for N = 1..MaxN; no form is bound yet.
InitNitsche ==
    /\ Chapter3Idle
    /\ \E size \in 1..MaxN \cup {NitscheN} : domain = create_unit_square(size, size)
    /\ pc = "alpha"
    /\ alpha = 0
    /\ a = Form(<<>>)
    /\ L = Form(<<>>)
    /\ problem = [a |-> Form(<<>>), L |-> Form(<<>>), bcs |-> <<>>]
    /\ error = NoError
    /\ NewtonIdle
    /\ PublishIdle

NextNitsche ==
    \/ AssignAlpha
    \/ AssignA
    \/ AugmentA
    \/ AssignL
    \/ AugmentL
    \/ CreateProblem
    \/ SolveProblem

SpecNitsche == InitNitsche /\ [][NextNitsche]_vars

\* ------------------------------------------- nonlinear Poisson notebook

\* What solver.solve(uh) can return: (n, converged).
SolveResults == (0..MaxIter) \X BOOLEAN

AssertionError == [type |-> "AssertionError", msg |-> <<>>]

\* A mutation of the assert statement: it lets every value pass.
assert_disabled(condition) == TRUE

\* assert (condition): passes if the condition is true, raises AssertionError if not
assert_passes(condition) == condition

\* print(f"Number of interations: {n:d}")
IterationsLine(count) == [text |-> "Number of interations: ", n |-> count]

\* print(f"L2-error: {error_L2:.2e}") and print(f"Error_max: {error_max:.2e}")
ErrorLine(label) == [text |-> label]

\* if domain.comm.rank == 0: print(...)
PrintOnRankZero(out, line) == IF rank = 0 THEN Append(out, line) ELSE out

\* n, converged = solver.solve(uh)
NewtonSolve ==
    /\ pc = "solve"
    /\ \E res \in SolveResults :
         /\ newton_n' = res[1]
         /\ converged' = res[2]
    /\ pc' = "assert"
    /\ UNCHANGED <<error, a, L, rank, stdout>>
    /\ UNCHANGED chapter3Vars
    /\ UNCHANGED <<nitscheVars, publishVars>>

\* assert (converged), converged being true
AssertPasses ==
    /\ pc = "assert"
    /\ assert_passes(converged)
    /\ pc' = "print"
    /\ UNCHANGED <<error, a, L>>
    /\ UNCHANGED chapter3Vars
    /\ UNCHANGED otherVars

\* assert (converged), converged being false: the run ends with AssertionError
AssertFails ==
    /\ pc = "assert"
    /\ ~assert_passes(converged)
    /\ error' = AssertionError
    /\ pc' = "raised"
    /\ UNCHANGED <<a, L>>
    /\ UNCHANGED chapter3Vars
    /\ UNCHANGED otherVars

\* print(f"Number of interations: {n:d}")
PrintIterations ==
    /\ pc = "print"
    /\ stdout' = Append(stdout, IterationsLine(newton_n))
    /\ pc' = "error_L2"
    /\ UNCHANGED <<error, a, L, newton_n, converged, rank>>
    /\ UNCHANGED chapter3Vars
    /\ UNCHANGED <<nitscheVars, publishVars>>

\* The L2 error is computed on every process and printed on rank 0.
ComputeErrorL2 ==
    /\ pc = "error_L2"
    /\ stdout' = PrintOnRankZero(stdout, ErrorLine("L2-error: "))
    /\ pc' = "error_max"
    /\ UNCHANGED <<error, a, L, newton_n, converged, rank>>
    /\ UNCHANGED chapter3Vars
    /\ UNCHANGED <<nitscheVars, publishVars>>

\* The maximum error is computed on every process and printed on rank 0.
ComputeErrorMax ==
    /\ pc = "error_max"
    /\ stdout' = PrintOnRankZero(stdout, ErrorLine("Error_max: "))
    /\ pc' = "done"
    /\ UNCHANGED <<error, a, L, newton_n, converged, rank>>
    /\ UNCHANGED chapter3Vars
    /\ UNCHANGED <<nitscheVars, publishVars>>

\* The notebook before the solve cell, on one of the processes.
InitNewton ==
    /\ Chapter3Idle
    /\ NitscheIdle
    /\ PublishIdle
    /\ pc = "solve"
    /\ error = NoError
    /\ a = Form(<<>>)
    /\ L = Form(<<>>)
    /\ newton_n = 0
    /\ converged = FALSE
    /\ rank \in 0..MaxRank
    /\ stdout = <<>>

NextNewton ==
    \/ NewtonSolve
    \/ AssertPasses
    \/ AssertFails
    \/ PrintIterations
    \/ ComputeErrorL2
    \/ ComputeErrorMax

SpecNewton == InitNewton /\ [][NextNewton]_vars

\* ------------------------------------------------ workflow "Publish book"

\* on: push (to release), workflow_dispatch, schedule
Events == {"push", "workflow_dispatch", "schedule"}

\* jobs: run-tests, build-book, deploy
JobNames == {"run-tests", "build-book", "deploy"}

\* A mutation of the needs key of deploy: needs: [build-book]
needs_build_only(job) == IF job = "deploy" THEN {"build-book"} ELSE {}

\* needs: [build-book, run-tests] for deploy; the other two jobs have no needs key
needs(job) == IF job = "deploy" THEN {"build-book", "run-tests"} ELSE {}

\* A job that has come to an end has one of these conclusions.
Conclusions == {"success", "failure", "cancelled", "skipped"}

\* A run as it is created by a trigger: no job has started.
NewRun(event) ==
    [event |-> event, status |-> [j \in JobNames |-> "waiting"], started |-> {}]

\* cancel-in-progress: true. Every job of the run that has not come to an end
\* is cancelled.
CancelInProgress(run) ==
    [run EXCEPT !.status =
        [j \in JobNames |-> IF run.status[j] \in Conclusions THEN run.status[j]
                             ELSE "cancelled"]]

\* An event triggers a run; the runs of the concurrency group "pages" that are
\* still in progress are cancelled.
Trigger(event) ==
    /\ Len(publish) < MaxPublishRuns
    /\ publish' = Append([i \in DOMAIN publish |-> CancelInProgress(publish[i])],
                         NewRun(event))
    /\ UNCHANGED <<pc, error, a, L>>
    /\ UNCHANGED chapter3Vars
    /\ UNCHANGED <<nitscheVars, newtonVars>>

\* A job starts once every job it needs has succeeded.
StartJob(i, job) ==
    /\ publish[i].status[job] = "waiting"
    /\ \A d \in needs(job) : publish[i].status[d] = "success"
    /\ publish' = [publish EXCEPT ![i].status[job] = "in_progress",
                                   ![i].started = @ \cup {job}]
    /\ UNCHANGED <<pc, error, a, L>>
    /\ UNCHANGED chapter3Vars
    /\ UNCHANGED <<nitscheVars, newtonVars>>

\* A job is skipped once a job it needs has ended without success.
SkipJob(i, job) ==
    /\ publish[i].status[job] = "waiting"
    /\ \E d \in needs(job) : publish[i].status[d] \in Conclusions \ {"success"}
    /\ publish' = [publish EXCEPT ![i].status[job] = "skipped"]
    /\ UNCHANGED <<pc, error, a, L>>
    /\ UNCHANGED chapter3Vars
    /\ UNCHANGED <<nitscheVars, newtonVars>>

\* A job that is running ends, with success or with failure.
FinishJob(i, job, conclusion) ==
    /\ publish[i].status[job] = "in_progress"
    /\ publish' = [publish EXCEPT ![i].status[job] = conclusion]
    /\ UNCHANGED <<pc, error, a, L>>
    /\ UNCHANGED chapter3Vars
    /\ UNCHANGED <<nitscheVars, newtonVars>>

\* The repository before the workflow is triggered for the first time.
InitPublish ==
    /\ Chapter3Idle
    /\ NitscheIdle
    /\ NewtonIdle
    /\ pc = "idle"
    /\ error = NoError
    /\ a = Form(<<>>)
    /\ L = Form(<<>>)
    /\ publish = <<>>

NextPublish ==
    \/ \E event \in Events : Trigger(event)
    \/ \E i \in DOMAIN publish, job \in JobNames : StartJob(i, job)
    \/ \E i \in DOMAIN publish, job \in JobNames : SkipJob(i, job)
    \/ \E i \in DOMAIN publish, job \in JobNames, conclusion \in {"success", "failure"} :
          FinishJob(i, job, conclusion)

SpecPublish == InitPublish /\ [][NextPublish]_vars

\* ------------------------------------------------- vocabulary of the claims

\* The aggregation run that started last.
LastRun == runlog[Len(runlog)]

\* The aggregation cell has run to its end and F is its result.
Finished == pc \in {"aggregated", "split"}

HasUnknown == \E i \in DOMAIN specs : specs[i].type \notin ValidTypes

AllValid == \A i \in DOMAIN specs : specs[i].type \in ValidTypes

\* The position of the first specification of an unknown type.
FirstUnknown ==
    CHOOSE i \in DOMAIN specs :
        /\ specs[i].type \notin ValidTypes
        /\ \A j \in 1..(i - 1) : specs[j].type \in ValidTypes

AllDirichlet == \A i \in DOMAIN specs : specs[i].type = "Dirichlet"

\* The documented surface integral of a Neumann specification: g * v on marker m.
NeumannIntegral(sp) == IntDs(inner(Coef(sp.values[1]), v), sp.marker)

\* The documented surface integral of a Robin specification: r * (u - s) * v on m.
RobinIntegral(sp) ==
    IntDs(Mul(Coef(sp.values[1]), inner(Sub(u, Coef(sp.values[2])), v)), sp.marker)

\* The term sign * (product of atoms) integrated over ds(marker).
DsTerm(sign, atoms, marker) ==
    [sign |-> sign, atoms |-> atoms, measure |-> "ds", marker |-> marker]

\* The term sign * (product of atoms) integrated over dx.
DxTerm(sign, atoms) ==
    [sign |-> sign, atoms |-> atoms, measure |-> "dx", marker |-> Everywhere]

CoefAtom(c) == SetToBag({<<"coef", c>>})

UAtom == SetToBag({<<"u">>})

VAtom == SetToBag({<<"v">>})

\* g * v ds(m)
NeumannTerm(sp) == DsTerm(1, CoefAtom(sp.values[1]) (+) VAtom, sp.marker)

\* r * u * v ds(m)
RobinBilinearTerm(sign, sp) ==
    DsTerm(sign, (CoefAtom(sp.values[1]) (+) UAtom) (+) VAtom, sp.marker)

\* r * s * v ds(m)
RobinLinearTerm(sign, sp) ==
    DsTerm(sign, (CoefAtom(sp.values[1]) (+) CoefAtom(sp.values[2])) (+) VAtom, sp.marker)

\* The vertices on side x = c (axis 1) or y = c (axis 2) of the unit square.
SideVertices(m, axis, c) ==
    IF axis = 1 THEN {<<2 * m.nx * c, 2 * j>> : j \in 0..m.ny}
                ELSE {<<2 * i, 2 * m.ny * c>> : i \in 0..m.nx}

\* ------------------------------------------------------------------ claims

\* C1: a list with a specification of a type other than "Dirichlet", "Neumann",
\* "Robin" never gets past its first such entry: the constructor of that entry can
\* only raise, the TypeError's message names the type string, and the residual,
\* the Dirichlet list and boundary_conditions stay what they were before the
\* attempt, whatever entries precede the bad one.
C1_UnknownKindFails ==
    HasUnknown =>
        /\ pc \in {"construct", "raised"}
        /\ Len(built) < FirstUnknown
        /\ F = BaseF /\ bcs = <<>> /\ boundary_conditions = <<>> /\ runs = 0
        /\ (pc = "construct" /\ Len(built) + 1 = FirstUnknown) =>
               (ENABLED ConstructRaise /\ ~ENABLED ConstructOk)
        /\ pc = "raised" =>
               /\ error.type = "TypeError"
               /\ error.msg = <<"Unknown boundary condition: ", specs[FirstUnknown].type>>
               /\ Len(built) = FirstUnknown - 1

\* A Neumann entry was constructed, then "Periodic" raised.
C1_Witness ==
    /\ pc = "raised"
    /\ Len(specs) = 2
    /\ specs[1].type = "Neumann"
    /\ specs[2].type = "Periodic"
    /\ Len(built) = 1

\* C2: for a list of Dirichlet entries only (the empty list included), the
\* residual during and after the aggregation is the form the run started from,
\* integral for integral, and the finished Dirichlet list has one entry per
\* specification, in order, carrying that specification's value.
C2_DirichletOnly ==
    (AllDirichlet /\ pc \in {"aggregate", "aggregated", "split"}) =>
        /\ F = LastRun.F_in
        /\ Finished =>
               /\ Len(bcs) = Len(specs)
               /\ \A i \in DOMAIN specs : bcs[i].value = specs[i].values[1]

C2_Witness ==
    /\ AllDirichlet
    /\ Len(specs) = 2
    /\ pc = "aggregated"
    /\ Len(bcs) = 2

\* C3: for the list of one Neumann entry (g on marker m) the aggregated residual
\* is the form the run started from plus one integral, inner(g, v) * ds(m): one
\* more term, + g * v on marker m and no other marker; the Dirichlet list is empty.
C3_OneNeumann ==
    (Len(specs) = 1 /\ specs[1].type = "Neumann" /\ Finished) =>
        /\ F = FormAdd(LastRun.F_in, Form(<<NeumannIntegral(specs[1])>>))
        /\ Terms(F) = Terms(LastRun.F_in) \o <<NeumannTerm(specs[1])>>
        /\ bcs = <<>>

C3_Witness ==
    /\ Len(specs) = 1
    /\ specs[1] = BC("Neumann", 4, <<"g">>)
    /\ pc = "aggregated"
    /\ Len(F.integrals) = 3

\* C4: for the list of one Robin entry (r, s on marker m) the aggregated residual
\* is the form the run started from plus the integral r * inner(u - s, v) * ds(m),
\* whose terms are one bilinear term + r * u * v and one linear term - r * s * v,
\* both on marker m; the Dirichlet list is empty.
C4_OneRobin ==
    (Len(specs) = 1 /\ specs[1].type = "Robin" /\ Finished) =>
        /\ F = FormAdd(LastRun.F_in, Form(<<RobinIntegral(specs[1])>>))
        /\ Terms(F) = Terms(LastRun.F_in)
                         \o <<RobinBilinearTerm(1, specs[1]), RobinLinearTerm(0 - 1, specs[1])>>
        /\ Arity(RobinBilinearTerm(1, specs[1])) = 2
        /\ Arity(RobinLinearTerm(0 - 1, specs[1])) = 1
        /\ bcs = <<>>

C4_Witness ==
    /\ Len(specs) = 1
    /\ specs[1] = BC("Robin", 1, <<"r", "s">>)
    /\ pc = "aggregated"
    /\ Len(Terms(F)) = 4

\* The objects the list literal builds for the specifications in the order perm.
ObjectsInOrder(perm) ==
    [i \in DOMAIN perm |->
       BoundaryCondition(mesh, facet_tag, specs[perm[i]].type, specs[perm[i]].marker,
                         specs[perm[i]].values).obj]

RECURSIVE AggregateAll(_, _, _)
\* The aggregation loop over a whole list, from residual form and Dirichlet list cs.
AggregateAll(conditions, form, cs) ==
    IF conditions = <<>> THEN [F |-> form, bcs |-> cs]
    ELSE IF get_type(Head(conditions)) = "Dirichlet"
         THEN AggregateAll(Tail(conditions), form, AppendToBcs(cs, Head(conditions)))
         ELSE AggregateAll(Tail(conditions), AddToResidual(form, Head(conditions)), cs)

\* C5: the finished aggregation and the aggregation of any permutation of the
\* same list from the same starting residual have the same multiset of integrals
\* and the same set of Dirichlet conditions.
C5_OrderIndependent ==
    (AllValid /\ Finished) =>
        \A perm \in Permutations(DOMAIN specs) :
            LET other == AggregateAll(ObjectsInOrder(perm), LastRun.F_in, <<>>)
            IN  /\ BagOfSeq(F.integrals) = BagOfSeq(other.F.integrals)
                /\ Range(bcs) = Range(other.bcs)
                /\ Len(bcs) = Len(other.bcs)

\* Two different surface terms and a Dirichlet condition were aggregated.
C5_Witness ==
    /\ specs = NotebookSpecs
    /\ pc = "aggregated"
    /\ Len(F.integrals) = 4
    /\ Len(bcs) = 2

\* The Dirichlet conditions of a list of objects, in order.
DirichletOf(conditions) == SelectSeq(conditions, LAMBDA c : c.type = "Dirichlet")

\* The integrals of the Neumann and Robin objects of a list, in order.
SurfaceIntegralsOf(conditions) ==
    Flatten([i \in DOMAIN conditions |->
               IF conditions[i].type = "Dirichlet" THEN <<>>
               ELSE conditions[i].bc.integrals])

DoneRuns == {j \in DOMAIN runlog : runlog[j].done}

\* C6 as stated: every finished aggregation run over the same list yields the same
\* Dirichlet list and the same residual as the first one.
C6_SameResultEveryRun ==
    \A j \in DoneRuns :
        /\ runlog[j].bcs = runlog[1].bcs
        /\ runlog[j].F_out = runlog[1].F_out

\* C6, amended: every run of the aggregation cell rebuilds the same Dirichlet
\* list and leaves the list of boundary conditions as constructed, but F is both
\* the input and the output of the cell: a run adds each Neumann/Robin integral
\* once to the F it finds, and a run that follows another finds the result of
\* that run unless the cell defining F was run in between. So a second run in
\* succession holds every contribution twice, and two runs agree exactly when
\* they start from the same F.
C6_ResidualAccumulates ==
    /\ runs >= 1 => (boundary_conditions = built /\ Len(built) = Len(specs))
    /\ \A j \in DoneRuns :
          /\ [i \in DOMAIN runlog[j].bcs |-> [type |-> "Dirichlet", bc |-> runlog[j].bcs[i]]]
               = DirichletOf(boundary_conditions)
          /\ runlog[j].F_out.integrals
               = runlog[j].F_in.integrals \o SurfaceIntegralsOf(boundary_conditions)
          /\ j = 1 => runlog[j].F_in = BaseF
          /\ j > 1 => runlog[j].F_in \in {runlog[j - 1].F_out, BaseF}
          /\ \A i \in DoneRuns :
                (runlog[i].F_in = runlog[j].F_in) => (runlog[i].F_out = runlog[j].F_out)

\* Two runs in succession over a list with a Dirichlet and a Neumann entry: the
\* second result holds the Neumann integral twice.
C6_Witness ==
    /\ pc = "aggregated"
    /\ Len(runlog) = 2
    /\ specs = <<BC("Dirichlet", 1, <<"u_ex">>), BC("Neumann", 4, <<"g">>)>>
    /\ runlog[2].F_in = runlog[1].F_out
    /\ Len(runlog[1].F_out.integrals) = 3
    /\ Len(runlog[2].F_out.integrals) = 4
    /\ runlog[2].bcs = runlog[1].bcs

\* C7: the notebook's list [Dirichlet(1, u_ex), Dirichlet(2, u_ex), Robin(3, (r, s)),
\* Neumann(4, g)], aggregated from the base residual, gives two Dirichlet
\* conditions, on the vertices of x = 0 and of x = 1 in that order, and a residual
\* whose surface terms are exactly the Robin pair + r u v, - r s v on marker 3 and
\* the Neumann term + g v on marker 4, after the two volume terms.
C7_NotebookScenario ==
    (specs = NotebookSpecs /\ Finished /\ LastRun.F_in = BaseF) =>
        /\ bcs = << [value |-> "u_ex", dofs |-> SideVertices(mesh, 1, 0)],
                    [value |-> "u_ex", dofs |-> SideVertices(mesh, 1, 1)] >>
        /\ F.integrals = BaseF.integrals
                           \o <<RobinIntegral(specs[3]), NeumannIntegral(specs[4])>>
        /\ SelectSeq(Terms(F), LAMBDA t : t.measure = "ds")
             = << DsTerm(1, (CoefAtom("r") (+) UAtom) (+) VAtom, 3),
                  DsTerm(0 - 1, (CoefAtom("r") (+) CoefAtom("s")) (+) VAtom, 3),
                  DsTerm(1, CoefAtom("g") (+) VAtom, 4) >>
        /\ SelectSeq(Terms(F), LAMBDA t : t.measure = "dx") = Terms(BaseF)

C7_Witness ==
    /\ specs = NotebookSpecs
    /\ pc = "aggregated"
    /\ runs = 1
    /\ Len(bcs) = 2
    /\ Len(Terms(F)) = 5

\* kappa * grad(u) . grad(v) dx
StiffnessTerm ==
    DxTerm(1, (CoefAtom("kappa") (+) SetToBag({<<"grad", "u">>})) (+) SetToBag({<<"grad", "v">>}))

\* f * v dx
SourceTerm == DxTerm(1, CoefAtom("f") (+) VAtom)

\* The documented a(u, v): the stiffness term and r_i u v per Robin entry.
DocumentedA ==
    <<StiffnessTerm>>
    \o Flatten([i \in DOMAIN specs |->
                  IF specs[i].type = "Robin" THEN <<RobinBilinearTerm(1, specs[i])>> ELSE <<>>])

\* The documented L(v): the source term, - g_j v per Neumann entry and + r_i s_i v
\* per Robin entry.
DocumentedL ==
    <<SourceTerm>>
    \o Flatten([i \in DOMAIN specs |->
                  CASE specs[i].type = "Neumann" ->
                         <<[NeumannTerm(specs[i]) EXCEPT !.sign = 0 - 1]>>
                    [] specs[i].type = "Robin" -> <<RobinLinearTerm(1, specs[i])>>
                    [] OTHER -> <<>>])

\* C8: after a = lhs(F), L = rhs(F) of a residual aggregated from the base form,
\* a is the stiffness term plus one term r_i u v per Robin entry, which are the
\* terms of F that depend on u; L is the source term f v, minus g_j v per Neumann
\* entry, plus r_i s_i v per Robin entry, which are the negated terms of F that do
\* not depend on u; every term of F went to exactly one of the two.
C8_LhsRhsSplit ==
    (pc = "split" /\ LastRun.F_in = BaseF) =>
        /\ BagOfSeq(a) = BagOfSeq(DocumentedA)
        /\ BagOfSeq(L) = BagOfSeq(DocumentedL)
        /\ \A i \in DOMAIN a : Arity(a[i]) = 2
        /\ \A i \in DOMAIN L : Arity(L[i]) = 1
        /\ Len(a) + Len(L) = Len(Terms(F))
        /\ \A t \in Range(Terms(F)) :
              IF DOMAIN t.atoms \cap TrialAtoms # {}
              THEN t \in Range(a)
              ELSE [t EXCEPT !.sign = 0 - t.sign] \in Range(L)

\* A Neumann, a Robin and a Dirichlet-free split: the notebook's list.
C8_Witness ==
    /\ pc = "split"
    /\ specs = NotebookSpecs
    /\ runs = 1
    /\ Len(a) = 2
    /\ Len(L) = 3

\* C9: once the tagging cell has run on a unit-square mesh, every boundary facet
\* occurs exactly once in the tag arrays with a marker among 1..4, no facet index
\* occurs twice, and every tagged facet is a boundary facet.
C9_MarkersPartitionBoundary ==
    pc = "tagged" =>
        LET idx == facet_tag.indices
            bnd == {FacetIndex(mesh, e) : e \in BoundaryFacets(mesh)}
        IN  /\ Len(idx) = Len(facet_tag.values)
            /\ \A n \in bnd : Cardinality({i \in DOMAIN idx : idx[i] = n}) = 1
            /\ \A i \in DOMAIN idx : facet_tag.values[i] \in 1..4
            /\ \A i, j \in DOMAIN idx : i # j => idx[i] # idx[j]
            /\ Range(idx) \subseteq bnd

\* The notebook's 10 x 10 mesh is tagged: 40 boundary facets.
C9_Witness ==
    /\ pc = "tagged"
    /\ mesh = NotebookMesh
    /\ Len(facet_tag.indices) = 40

\* Some marker of the list tags no facet, or two specifications name one marker.
MarkerTrouble ==
    \/ \E i \in DOMAIN specs : find(facet_tag, specs[i].marker) = {}
    \/ \E i, j \in DOMAIN specs : i # j /\ specs[i].marker = specs[j].marker

\* C10: a list of valid types in which a marker tags no facet, or in which two
\* specifications name the same marker, raises nothing in the constructor or the
\* aggregation loop: every constructor call succeeds, and in the finished
\* aggregation each specification has contributed its Dirichlet condition or its
\* surface integral.
C10_MarkersNotValidated ==
    (AllValid /\ MarkerTrouble) =>
        /\ pc # "raised"
        /\ error = NoError
        /\ (pc = "construct" /\ Len(built) < Len(specs)) =>
               (ENABLED ConstructOk /\ ~ENABLED ConstructRaise)
        /\ Finished =>
               /\ Len(bcs) + (Len(F.integrals) - Len(LastRun.F_in.integrals)) = Len(specs)
               /\ \A i \in DOMAIN specs :
                     CASE specs[i].type = "Dirichlet" ->
                            \E n \in DOMAIN bcs :
                                /\ bcs[n].value = specs[i].values[1]
                                /\ bcs[n].dofs =
                                     UNION {FacetOfIndex(mesh, x) :
                                              x \in find(facet_tag, specs[i].marker)}
                       [] specs[i].type = "Neumann" ->
                            NeumannIntegral(specs[i]) \in Range(F.integrals)
                       [] OTHER -> RobinIntegral(specs[i]) \in Range(F.integrals)

\* A Dirichlet condition on a marker that tags no facet and a Neumann term on the
\* same marker were both accepted.
C10_Witness ==
    /\ pc = "aggregated"
    /\ specs = <<BC("Dirichlet", 5, <<"u_ex">>), BC("Neumann", 5, <<"g">>)>>
    /\ Len(bcs) = 1
    /\ bcs[1].dofs = {}
    /\ Len(F.integrals) = 3

\* The first n entries of a sequence.
Prefix(s, n) == [i \in 1..n |-> s[i]]

\* C14: after the loop has processed the first k of a list of valid
\* specifications, bcs holds exactly the Dirichlet conditions among those k, in
\* input order, the residual is the form the run started from plus the integral of
\* each Neumann or Robin entry among those k, once each and in input order, and
\* the number of conditions in bcs plus the number of added integrals is k.
C14_LoopInvariant ==
    (AllValid /\ pc \in {"aggregate", "aggregated"}) =>
        LET seen == Prefix(boundary_conditions, k)
        IN  /\ k \in 0..Len(boundary_conditions)
            /\ bcs = [i \in DOMAIN DirichletOf(seen) |-> DirichletOf(seen)[i].bc]
            /\ \A i \in DOMAIN bcs :
                  \E j \in 1..k : specs[j].type = "Dirichlet"
                                   /\ bcs[i].value = specs[j].values[1]
            /\ F.integrals = LastRun.F_in.integrals \o SurfaceIntegralsOf(seen)
            /\ Len(bcs) + (Len(F.integrals) - Len(LastRun.F_in.integrals)) = k
            /\ Len(bcs) = Cardinality({j \in 1..k : specs[j].type = "Dirichlet"})

\* Half-way through the notebook's list: both Dirichlet conditions and the Robin
\* integral are in, the Neumann entry is still to come.
C14_Witness ==
    /\ pc = "aggregate"
    /\ specs = NotebookSpecs
    /\ k = 3
    /\ Len(bcs) = 2
    /\ bcs[1] # bcs[2]
    /\ Len(F.integrals) = 3

\* One iteration of the loop: either branch of the loop body.
LoopIteration == AggregateDirichlet \/ AggregateOther

\* The entry the loop dispatches next, kept as the specification it was built from.
Dispatched(n) == specs[n]

\* C15: the loop is a single pass that always ends. While entries remain the
\* loop can take an iteration, and every step it takes from there handles exactly
\* the next entry of the list (k goes up by one, the entry goes to the branch of
\* its kind, the list stays as it is); when none remain, and only then, the loop
\* can only finish, so it has made exactly as many iterations as the list has
\* entries. The number of entries still to handle goes down with every iteration,
\* so no state of the loop comes back.
C15_SinglePass ==
    /\ [](pc = "aggregate" =>
            /\ k \in 0..Len(boundary_conditions)
            /\ (k < Len(boundary_conditions)) = ENABLED LoopIteration
            /\ (k = Len(boundary_conditions)) = ENABLED AggregateDone)
    /\ [][pc = "aggregate" =>
            IF k < Len(boundary_conditions)
            THEN /\ pc' = "aggregate"
                 /\ k' = k + 1
                 /\ Len(boundary_conditions') - k' < Len(boundary_conditions) - k
                 /\ boundary_conditions' = boundary_conditions
                 /\ IF Dispatched(k').type = "Dirichlet"
                    THEN bcs' = Append(bcs, boundary_conditions[k'].bc) /\ F' = F
                    ELSE F' = FormAdd(F, boundary_conditions[k'].bc) /\ bcs' = bcs
            ELSE /\ pc' = "aggregated"
                 /\ k' = Len(boundary_conditions)
                 /\ LastRun'.done
                 /\ bcs' = bcs /\ F' = F]_vars

\* The notebook's list has been run through: four entries, four iterations.
C15_Witness ==
    /\ pc = "aggregated"
    /\ specs = NotebookSpecs
    /\ k = 4
    /\ LastRun.done

\* Every BoundaryCondition object there is: the ones built so far in the list
\* literal and the ones of the bound list.
Objects == Range(built) \cup Range(boundary_conditions)

\* A Neumann or Robin term: a form of one integral over a part of the boundary.
IsSurfaceTerm(bc) ==
    /\ DOMAIN bc = {"integrals"}
    /\ Len(bc.integrals) = 1
    /\ bc.integrals[1].measure = "ds"

\* An essential constraint: a value on a set of degrees of freedom.
IsEssentialConstraint(bc) == DOMAIN bc = {"value", "dofs"}

\* C16: every BoundaryCondition object that exists has one of the three kinds,
\* the kind of its specification, exactly as written there; for a specification
\* of any other kind, "dirichlet" in lower case included, no object exists. So
\* the entry the else branch of the loop receives is a Neumann or a Robin
\* condition whose bc is a surface term, never an essential constraint.
C16_OnlyKnownKinds ==
    /\ \A c \in Objects : get_type(c) \in {"Dirichlet", "Neumann", "Robin"}
    /\ \A i \in DOMAIN built : get_type(built[i]) = specs[i].type
    /\ \A i \in DOMAIN specs :
          specs[i].type \notin {"Dirichlet", "Neumann", "Robin"} => Len(built) < i
    /\ \A c \in Objects :
          IF get_type(c) = "Dirichlet"
          THEN IsEssentialConstraint(get_bc(c))
          ELSE IsSurfaceTerm(get_bc(c))
    /\ (pc = "aggregate" /\ k < Len(boundary_conditions)
            /\ get_type(boundary_conditions[k + 1]) # "Dirichlet") =>
          /\ get_type(boundary_conditions[k + 1]) \in {"Neumann", "Robin"}
          /\ IsSurfaceTerm(get_bc(boundary_conditions[k + 1]))
          /\ ~IsEssentialConstraint(get_bc(boundary_conditions[k + 1]))

\* The else branch is about to receive a Robin condition that follows a Dirichlet
\* one in the list.
C16_Witness ==
    /\ pc = "aggregate"
    /\ k = 1
    /\ Len(boundary_conditions) = 2
    /\ get_type(boundary_conditions[1]) = "Dirichlet"
    /\ get_type(boundary_conditions[2]) = "Robin"

\* What the constructor built for the i-th specification.
Constructed(i) ==
    BoundaryCondition(mesh, facet_tag, specs[i].type, specs[i].marker, specs[i].values).obj

\* C17: a BoundaryCondition holds no mutable state: whenever it is asked, type is
\* the kind given to the constructor and bc the object the constructor built.
\* The aggregation cell changes bcs and F (and its own position) and nothing
\* else: the list of specifications, its order and every specification in it
\* are after each of its steps what they were before.
C17_SpecificationsUntouched ==
    /\ [](\A i \in DOMAIN boundary_conditions :
            /\ get_type(boundary_conditions[i]) = specs[i].type
            /\ get_bc(boundary_conditions[i]) = Constructed(i).bc)
    /\ [][(pc = "aggregate" \/ pc' = "aggregate") =>
            /\ boundary_conditions' = boundary_conditions
            /\ \A i \in DOMAIN boundary_conditions :
                  /\ get_type(boundary_conditions[i])' = get_type(boundary_conditions[i])
                  /\ get_bc(boundary_conditions[i])' = get_bc(boundary_conditions[i])
            /\ UNCHANGED <<specs, built, mesh, facet_tag, error, a, L>>
            /\ (bcs' # bcs \/ F' # F \/ k' = 0 \/ pc' = "aggregated")]_vars

\* The cell has run twice over a list of a Dirichlet and a Neumann condition, and
\* the list is still the one that was constructed.
C17_Witness ==
    /\ pc = "aggregated"
    /\ runs = 2
    /\ Len(boundary_conditions) = 2
    /\ get_type(boundary_conditions[1]) = "Dirichlet"
    /\ get_type(boundary_conditions[2]) = "Neumann"
    /\ F # BaseF

\* The pairs (index, marker) of two arrays of one length.
Pairs(indices, markers) == [i \in DOMAIN indices |-> <<indices[i], markers[i]>>]

\* The pairs (facet, marker) the locators give: for each entry of boundaries,
\* every facet its locator finds, with its marker.
LocatedPairs(m) ==
    Flatten([i \in DOMAIN boundaries |->
               LET facets == locate_entities(m, boundaries[i])
               IN  [j \in DOMAIN facets |-> <<facets[j], boundaries[i].marker>>]])

\* C18: the index array handed to meshtags is sorted in non-decreasing order, and
\* the marker array went through the same permutation: the pairs (facet index,
\* marker) handed to meshtags are, as a multiset, the pairs (facet found by
\* locator i, marker i), which are also the pairs of the two stacked arrays.
C18_SortedSamePermutation ==
    pc = "tagged" =>
        LET idx == facet_tag.indices
            val == facet_tag.values
        IN  /\ Len(idx) = Len(val)
            /\ \A i \in 1..(Len(idx) - 1) : idx[i] <= idx[i + 1]
            /\ BagOfSeq(Pairs(idx, val)) = BagOfSeq(LocatedPairs(mesh))
            /\ BagOfSeq(Pairs(idx, val)) = BagOfSeq(Pairs(facet_indices, facet_markers))

\* A mesh is tagged whose stacked index array was not sorted to begin with: the
\* sort moved indices, and markers with them.
C18_Witness ==
    /\ pc = "tagged"
    /\ facet_tag.indices # facet_indices
    /\ facet_tag.values # facet_markers
    /\ Len(facet_tag.indices) >= 4

\* The factors that occur in the forms of nitsche.ipynb.
GradU == SetToBag({<<"grad", "u">>})
GradV == SetToBag({<<"grad", "v">>})
NormalAtom == CoefAtom("n")
\* alpha / h, h = 2 * Circumradius the diameter of the circumscribed sphere
AlphaOverH ==
    (CoefAtom("alpha") (+) SetToBag({<<"inv", "coef", "2">>}))
    (+) SetToBag({<<"inv", "coef", "Circumradius">>})
WholeBoundary == Everywhere

\* The documented a(u, v) of nitsche.ipynb:
\* grad u . grad v dx - (n . grad u) v ds - (n . grad v) u ds + alpha/h u v ds
NitscheDocumentedA ==
    << DxTerm(1, GradU (+) GradV),
       DsTerm(0 - 1, (NormalAtom (+) GradU) (+) VAtom, WholeBoundary),
       DsTerm(0 - 1, (NormalAtom (+) GradV) (+) UAtom, WholeBoundary),
       DsTerm(1, (AlphaOverH (+) UAtom) (+) VAtom, WholeBoundary) >>

\* The documented L(v) of nitsche.ipynb:
\* f v dx - (n . grad v) u_D ds + alpha/h u_D v ds
NitscheDocumentedL ==
    << DxTerm(1, CoefAtom("f") (+) VAtom),
       DsTerm(0 - 1, (NormalAtom (+) GradV) (+) CoefAtom("uD"), WholeBoundary),
       DsTerm(1, (AlphaOverH (+) CoefAtom("uD")) (+) VAtom, WholeBoundary) >>

\* C11: nitsche.ipynb imposes the Dirichlet condition weakly only: the problem
\* that is solved has an empty list of essential constraints, its bilinear form
\* has exactly the four documented terms and its linear form exactly the three
\* documented terms, each with the documented sign and domain of integration.
C11_WeakImpositionOnly ==
    pc \in {"solve", "solved"} =>
        /\ problem.bcs = <<>>
        /\ Len(Terms(problem.a)) = 4
        /\ BagOfSeq(Terms(problem.a)) = BagOfSeq(NitscheDocumentedA)
        /\ Len(Terms(problem.L)) = 3
        /\ BagOfSeq(Terms(problem.L)) = BagOfSeq(NitscheDocumentedL)

\* The notebook's own run is solved: N = 8, alpha = 10.
C11_Witness ==
    /\ pc = "solved"
    /\ domain = create_unit_square(NitscheN, NitscheN)
    /\ alpha = NitscheAlpha
    /\ Len(problem.a.integrals) = 4
    /\ Len(problem.L.integrals) = 3

\* A factor with the roles of trial and test function exchanged.
SwapAtom(x) ==
    CASE x = <<"u">> -> <<"v">>
      [] x = <<"v">> -> <<"u">>
      [] x = <<"grad", "u">> -> <<"grad", "v">>
      [] x = <<"grad", "v">> -> <<"grad", "u">>
      [] OTHER -> x

\* A term with u and v exchanged in every factor (SwapAtom is its own inverse).
SwapTerm(t) ==
    [t EXCEPT !.atoms = [y \in {SwapAtom(x) : x \in DOMAIN t.atoms} |-> t.atoms[SwapAtom(y)]]]

\* a(v, u): every term of a form with u and v exchanged.
Swapped(form) == [i \in DOMAIN Terms(form) |-> SwapTerm(Terms(form)[i])]

\* C12: the bilinear form of nitsche.ipynb is symmetric: exchanging u and v in
\* every term of a(u, v) gives the same multiset of terms.
C12_BilinearFormSymmetric ==
    pc \in {"L", "L +=", "problem", "solve", "solved"} =>
        BagOfSeq(Swapped(a)) = BagOfSeq(Terms(a))

\* The form a is complete, and the exchange does move terms: the term with
\* grad u and v is not the term with grad v and u.
C12_Witness ==
    /\ pc = "L"
    /\ Len(Terms(a)) = 4
    /\ Swapped(a) # Terms(a)
    /\ \E i \in DOMAIN Terms(a) : SwapTerm(Terms(a)[i]) # Terms(a)[i]

\* The steps after the assert statement: the print of the iteration count and
\* the cell that computes the errors.
AfterAssert == {"print", "error_L2", "error_max", "done"}

\* C13: in the nonlinear Poisson notebook the iteration count is printed and
\* the error computation is reached only if the Newton solver returned
\* converged = true. If it returned false, the assert statement is the next and
\* last step of the run: it raises AssertionError, and nothing has been printed
\* and no error computed.
C13_AssertGuardsTheRest ==
    /\ []((pc \in AfterAssert \/ stdout # <<>>) => converged)
    /\ [](pc = "raised" =>
            /\ ~converged
            /\ error = AssertionError
            /\ stdout = <<>>)
    /\ []((pc = "assert" /\ ~converged) => (ENABLED AssertFails /\ ~ENABLED AssertPasses))
    /\ [][(pc = "assert" /\ ~converged) => (pc' = "raised" /\ stdout' = <<>>)]_vars
    /\ [][pc = "raised" => FALSE]_vars

\* A run that did not converge has ended with the assertion failure.
C13_Witness ==
    /\ pc = "raised"
    /\ ~converged
    /\ newton_n = MaxIter
    /\ error = AssertionError

\* The two jobs deploy waits for.
Upstream == {"build-book", "run-tests"}

\* C19: in every run of the workflow, the deploy job has started only if
\* build-book and run-tests of that same run have both ended with success, and
\* it can start only then; build-book and run-tests wait for nothing, either
\* can start whatever the state of the other; and in a run in which one of the
\* two has failed or was cancelled, deploy has not started and cannot start.
C19_DeployNeedsBoth ==
    \A i \in DOMAIN publish :
        LET run == publish[i]
        IN  /\ "deploy" \in run.started =>
                  \A job \in Upstream : run.status[job] = "success"
            /\ ENABLED StartJob(i, "deploy") =>
                  \A job \in Upstream : run.status[job] = "success"
            /\ \A job \in Upstream :
                  run.status[job] = "waiting" => ENABLED StartJob(i, job)
            /\ (\E job \in Upstream : run.status[job] \in {"failure", "cancelled"}) =>
                  /\ "deploy" \notin run.started
                  /\ ~ENABLED StartJob(i, "deploy")
                  /\ run.status["deploy"] \in {"waiting", "skipped", "cancelled"}

\* The first run lost run-tests to a failure and never deployed; the second run
\* deploys after both of its own jobs succeeded.
C19_Witness ==
    /\ Len(publish) = 2
    /\ publish[1].status["run-tests"] = "failure"
    /\ publish[1].status["build-book"] = "success"
    /\ "deploy" \notin publish[1].started
    /\ "deploy" \in publish[2].started
    /\ publish[2].status["deploy"] = "in_progress"

=============================================================================
